---- MODULE Spec2Model ----
(***************************************************************************)
(* The two coupling notebooks of abm-landlab-mini-workshop as one state    *)
(* machine.                                                                *)
(*                                                                         *)
(*  nb = "gw"   : landlab_mesa_groundwater_pumping.ipynb, from the cell    *)
(*                "Set up the Farmer model" to the end of the run loop.    *)
(*  nb = "soil" : the wolf-sheep-grass / soil-creep notebook, section      *)
(*                "Two-way feedback".                                      *)
(*  nb = "call" : one call of generate_grass_map and one of                *)
(*                limit_grass_by_soil on any model (GrassSpec).            *)
(*                                                                         *)
(* A notebook runs its statements one after the other; pc names the        *)
(* statement that runs next.  The numerical solvers (landlab) and the      *)
(* wolf-sheep-grass population (mesa example) are external: each call is a *)
(* nondeterministic choice among a small family of results.                *)
(*                                                                         *)
(* Units: depths are whole metres in the groundwater notebook and whole    *)
(* decimetres in the soil notebook; the code only compares and subtracts   *)
(* them.  Recharge is in units of 1e-7 m/s, with dx in units of 100 m.     *)
(***************************************************************************)
EXTENDS Integers, Sequences, FiniteSets, TLC

VARIABLES nb, pc,
          \* groundwater notebook
          nr, nc, wt, depth_to_wt, recharge,
          agents, wt_depth_2d,
          well_count, pumping_well_count, p_well_count,
          i, steps_run, writes_done,
          \* soil-creep notebook
          ws_width, ws_height, grass,
          rmg_elev, prior_elev, soil, creep_coef, gm, soilmatrix, si,
          \* a call of generate_grass_map / limit_grass_by_soil on any model
          cell_content

gwvars == <<nr, nc, wt, depth_to_wt, recharge, agents, wt_depth_2d,
            well_count, pumping_well_count, p_well_count,
            i, steps_run, writes_done>>

soilvars == <<ws_width, ws_height, grass, rmg_elev, prior_elev, soil,
              creep_coef, gm, soilmatrix, si, cell_content>>

vars == <<nb, pc, gwvars, soilvars>>

----------------------------------------------------------------------------
(* Bounds of the exploration *)

\* largest number of node rows / node columns of the groundwater grid
MaxDim == 4
\* number of farmer agents (the notebook sets 12)
num_agents == 2
\* length of the groundwater run in years (the notebook sets 15)
run_duration_yrs == 2
\* iterations of the two-way soil-creep main loop (the notebook runs 50)
soil_steps == 2
\* largest number of cells of the wolf-sheep-grass grid (the default is 20 x 20)
MaxSoilCells == 2

(* Program constants *)

initial_water_table_depth == 2
well_depth == 5
pumping_rate == 4
dx == 1
initial_soil_depth == 2
min_depth_for_grass == 2

----------------------------------------------------------------------------
(* numpy arrays: a flat buffer in row-major (C) order, and a shape *)

Zeros1D(n) == [k \in 0..(n - 1) |-> 0]

Zeros2D(rows, cols) == [shape |-> <<rows, cols>>, data |-> Zeros1D(rows * cols)]

\* a name that is not bound to an array yet
Unset == Zeros2D(0, 0)

\* a[x][y] raises IndexError unless 0 <= x < rows and 0 <= y < cols
InBounds(shape, x, y) == x >= 0 /\ x < shape[1] /\ y >= 0 /\ y < shape[2]

\* the place of a[x][y] in the flat buffer
FlatIndex(shape, x, y) == x * shape[2] + y

\* a.reshape(shape) raises ValueError unless the cell counts agree; the result
\* is a view of a's buffer, so only its shape is new
ReshapeOk(n, shape) == shape[1] * shape[2] = n

CellCount(shape) == shape[1] * shape[2]

----------------------------------------------------------------------------
(* Groundwater notebook: grid, fields, FarmerAgent, FarmerModel *)

\* the nodes of RasterModelGrid((nr, nc)); node id = row * nc + column
Nodes == 0..(nr * nc - 1)

\* elev = grid.add_zeros(...) is never written
elev == [n \in Nodes |-> 0]

\* FarmerModel(num_agents, nc, nr, ...): MultiGrid(width, height, True)
grid_width == nc

grid_height == nr

\* depths the solver may leave at a node: just above, at and just below the
\* bottom of the wells
DepthLevels == {well_depth - 1, well_depth, well_depth + 1}

\* GroundwaterDupuitPercolator over one year (external).  It reads the recharge
\* field and rewrites the water table in place: flat at some depth, or flat
\* with a deeper cone at one node that is being pumped.
SolverOutcomes ==
    {[n \in Nodes |-> elev[n] - d] : d \in DepthLevels}
    \cup {[n \in Nodes |-> IF n = k THEN elev[n] - d[2] ELSE elev[n] - d[1]] :
             k \in {n \in Nodes : recharge[n] < 0},
             d \in {e \in DepthLevels \X DepthLevels : e[1] < e[2]}}

\* FarmerAgent.__init__
NewFarmer(id, wd) ==
    [unique_id |-> id, pos |-> <<0, 0>>, pumping |-> TRUE, well_depth |-> wd,
     seen |-> -1]

\* the draws of  randrange(self.grid.width - 2) + 1  for x and for y
Draws == (1..(grid_width - 2)) \X (1..(grid_width - 2))

\* what self.depth_to_water_table shows: reshape gave a view, so the buffer of
\* depth_to_wt as it is now
ModelDepthCopy == [n \in Nodes |-> elev[n] - (elev[n] - initial_water_table_depth)]

ModelDepthBuffer == depth_to_wt

\* the test of FarmerAgent.step: the well is dry
WellIsDryStrict(d, wd) == d > wd

WellIsDry(d, wd) == d >= wd

\* FarmerAgent.step of agent a on the world w = [agents, depth, shape]:
\* depth is the buffer behind model.wt_depth_2d, shape the shape of that view
FarmerAgentStepMoves(w, a) ==
    LET ag == w.agents[a]
        d  == w.depth[FlatIndex(w.shape, ag.pos[1], ag.pos[2])]
    IN  [w EXCEPT !.agents[a].seen = d,
                  !.agents[a].pumping = ~WellIsDry(d, ag.well_depth),
                  !.agents[a].pos = <<(ag.pos[1] + 1) % w.shape[1], ag.pos[2]>>]

FarmerAgentStepPumpsField(w, a) ==
    LET ag == w.agents[a]
        k  == FlatIndex(w.shape, ag.pos[1], ag.pos[2])
        d  == w.depth[k]
    IN  [w EXCEPT !.agents[a].seen = d,
                  !.agents[a].pumping = ~WellIsDry(d, ag.well_depth),
                  !.depth[k] = d + 1]

FarmerAgentStepYields(w, a) ==
    LET ag == w.agents[a]
        d  == w.depth[FlatIndex(w.shape, ag.pos[1], ag.pos[2])]
    IN  [w EXCEPT !.agents[a].seen = d,
                  !.agents[a].pumping =
                      /\ ~WellIsDry(d, ag.well_depth)
                      /\ ~\E b \in DOMAIN w.agents :
                             /\ b # a
                             /\ w.agents[b].pos = ag.pos
                             /\ w.agents[b].pumping]

FarmerAgentStep(w, a) ==
    LET ag == w.agents[a]
        d  == w.depth[FlatIndex(w.shape, ag.pos[1], ag.pos[2])]
    IN  [w EXCEPT !.agents[a].seen = d,
                  !.agents[a].pumping = ~WellIsDry(d, ag.well_depth)]

\* RandomActivation.step: every agent once, in the order drawn
RECURSIVE RunSchedule(_, _)
RunSchedule(w, order) ==
    IF order = <<>> THEN w
    ELSE RunSchedule(FarmerAgentStep(w, Head(order)), Tail(order))

ActivationOrders ==
    {o \in [1..num_agents -> 1..num_agents] :
        \A a, b \in 1..num_agents : o[a] = o[b] => a = b}

\* the shape FarmerModel.step gives the view wt_depth_2d
FarmerViewShape == <<grid_width, grid_height>>

----------------------------------------------------------------------------
(* get_well_count and the recharge field *)

\* the flat place of agent a's cell in an array of shape (nr, nc)
CountIndex(a) == FlatIndex(<<nr, nc>>, agents[a].pos[1], agents[a].pos[2])

\* well_count[x][y] is evaluated for every cell of model.grid.coord_iter()
CountRaises ==
    \E x \in 0..(grid_width - 1), y \in 0..(grid_height - 1) :
        ~InBounds(<<nr, nc>>, x, y)

\* np.zeros((nr, nc), dtype=int), made anew in every call
StaleCountArray ==
    IF pumping_well_count # Unset THEN pumping_well_count
    ELSE IF p_well_count # Unset THEN p_well_count ELSE Zeros2D(nr, nc)

NewCountArray == Zeros2D(nr, nc)

\* the two arrays get_well_count returns (when no index raises)
WellCountResult ==
    [shape |-> <<nr, nc>>,
     data  |-> [k \in Nodes |->
                 Cardinality({a \in DOMAIN agents : CountIndex(a) = k})]]

PumpingCountResult ==
    [shape |-> <<nr, nc>>,
     data  |-> [k \in Nodes |->
                 NewCountArray.data[k]
                 + Cardinality({a \in DOMAIN agents :
                                  agents[a].pumping /\ CountIndex(a) = k})]]

\* -(pumping_rate / (dx * dx)) * counts.flatten()
RechargeOfUnsigned(counts) ==
    [n \in Nodes |-> (pumping_rate \div (dx * dx)) * counts.data[n]]

RechargeOf(counts) ==
    [n \in Nodes |-> -((pumping_rate \div (dx * dx)) * counts.data[n])]

----------------------------------------------------------------------------
(* Control flow of the groundwater notebook *)

\* the statements of the body of  for i in range(run_duration_yrs)
GwLoopBodyAggregateFirst ==
    <<"run", "derive", "count", "write", "farmer_step", "schedule">>

GwLoopBody == <<"run", "derive", "farmer_step", "schedule", "count", "write">>

\* the statement after stmt in a loop body; after the last one, the loop head
After(body, stmt, head) ==
    LET k == CHOOSE j \in 1..Len(body) : body[j] = stmt
    IN  IF k = Len(body) THEN head ELSE body[k + 1]

\* range(run_duration_yrs) has another item after k items
RangeHasNextInclusive(k) == k <= run_duration_yrs

RangeHasNext(k) == k < run_duration_yrs

----------------------------------------------------------------------------
(* Actions of the groundwater notebook *)

\* one statement of the loop body has run: go on, and count the iteration
\* when it was the last one
GwAdvance(stmt) ==
    /\ pc' = After(GwLoopBody, stmt, "for")
    /\ i' = IF pc' = "for" THEN i + 1 ELSE i

\* farmer_model = FarmerModel(num_agents, nc, nr, well_depth,
\*                            depth_to_wt.reshape((nr, nc)))
\* place_agent raises IndexError for a cell outside the grid
Construct ==
    /\ nb = "gw" /\ pc = "construct"
    /\ IF Draws = {}
       THEN pc' = "ValueError" /\ UNCHANGED agents
       ELSE \E ps \in [1..num_agents -> Draws] :
              IF \E a \in 1..num_agents :
                    ~InBounds(<<grid_width, grid_height>>, ps[a][1], ps[a][2])
              THEN pc' = "IndexError" /\ UNCHANGED agents
              ELSE /\ agents' = [a \in 1..num_agents |->
                                   [NewFarmer(a - 1, well_depth)
                                      EXCEPT !.pos = ps[a]]]
                   /\ pc' = "count0"
    /\ UNCHANGED <<nb, nr, nc, wt, depth_to_wt, recharge, wt_depth_2d,
                   well_count, pumping_well_count, p_well_count,
                   i, steps_run, writes_done, soilvars>>

\* well_count, p_well_count = get_well_count(farmer_model)
InitialWellCount ==
    /\ nb = "gw" /\ pc = "count0"
    /\ IF CountRaises
       THEN pc' = "IndexError" /\ UNCHANGED <<well_count, p_well_count>>
       ELSE /\ well_count' = WellCountResult
            /\ p_well_count' = PumpingCountResult
            /\ pc' = "recharge0"
    /\ UNCHANGED <<nb, nr, nc, wt, depth_to_wt, recharge, agents, wt_depth_2d,
                   pumping_well_count, i, steps_run, writes_done, soilvars>>

\* recharge[:] = -(pumping_rate / (dx * dx)) * p_well_count.flatten()
InitialRecharge ==
    /\ nb = "gw" /\ pc = "recharge0"
    /\ recharge' = RechargeOf(p_well_count)
    /\ pc' = "for"
    /\ UNCHANGED <<nb, nr, nc, wt, depth_to_wt, agents, wt_depth_2d,
                   well_count, pumping_well_count, p_well_count,
                   i, steps_run, writes_done, soilvars>>

\* for i in range(run_duration_yrs): i counts the iterations done
ForYear ==
    /\ nb = "gw" /\ pc = "for"
    /\ pc' = IF RangeHasNext(i) THEN GwLoopBody[1] ELSE "done"
    /\ UNCHANGED <<nb, gwvars, soilvars>>

\* run_for_one_year(gdp, dt)
RunForOneYear ==
    /\ nb = "gw" /\ pc = "run"
    /\ \E f \in SolverOutcomes : wt' = f
    /\ GwAdvance("run")
    /\ UNCHANGED <<nb, nr, nc, depth_to_wt, recharge, agents, wt_depth_2d,
                   well_count, pumping_well_count, p_well_count,
                   steps_run, writes_done, soilvars>>

\* depth_to_wt[:] = elev - wt
UpdateDepth ==
    /\ nb = "gw" /\ pc = "derive"
    /\ depth_to_wt' = [n \in Nodes |-> elev[n] - wt[n]]
    /\ GwAdvance("derive")
    /\ UNCHANGED <<nb, nr, nc, wt, recharge, agents, wt_depth_2d,
                   well_count, pumping_well_count, p_well_count,
                   steps_run, writes_done, soilvars>>

\* farmer_model.step(), first statement:
\* self.wt_depth_2d = self.depth_to_water_table.reshape((width, height))
FarmerModelStepReshape ==
    /\ nb = "gw" /\ pc = "farmer_step"
    /\ IF ReshapeOk(Cardinality(DOMAIN ModelDepthBuffer), FarmerViewShape)
       THEN wt_depth_2d' = FarmerViewShape /\ GwAdvance("farmer_step")
       ELSE pc' = "ValueError" /\ UNCHANGED <<wt_depth_2d, i>>
    /\ UNCHANGED <<nb, nr, nc, wt, depth_to_wt, recharge, agents,
                   well_count, pumping_well_count, p_well_count,
                   steps_run, writes_done, soilvars>>

\* farmer_model.step(), second statement: self.schedule.step()
ScheduleStep ==
    /\ nb = "gw" /\ pc = "schedule"
    /\ \E order \in ActivationOrders :
         LET w == RunSchedule([agents |-> agents, depth |-> ModelDepthBuffer,
                               shape |-> wt_depth_2d], order)
         IN  /\ agents' = w.agents
             /\ depth_to_wt' = w.depth
    /\ steps_run' = steps_run + 1
    /\ GwAdvance("schedule")
    /\ UNCHANGED <<nb, nr, nc, wt, recharge, wt_depth_2d,
                   well_count, pumping_well_count, p_well_count,
                   writes_done, soilvars>>

\* well_count, pumping_well_count = get_well_count(farmer_model)
CountWells ==
    /\ nb = "gw" /\ pc = "count"
    /\ IF CountRaises
       THEN pc' = "IndexError" /\ UNCHANGED <<well_count, pumping_well_count, i>>
       ELSE /\ well_count' = WellCountResult
            /\ pumping_well_count' = PumpingCountResult
            /\ GwAdvance("count")
    /\ UNCHANGED <<nb, nr, nc, wt, depth_to_wt, recharge, agents, wt_depth_2d,
                   p_well_count, steps_run, writes_done, soilvars>>

\* recharge[:] = -(pumping_rate / (dx * dx)) * pumping_well_count.flatten()
WriteRecharge ==
    /\ nb = "gw" /\ pc = "write"
    /\ recharge' = RechargeOf(pumping_well_count)
    /\ writes_done' = writes_done + 1
    /\ GwAdvance("write")
    /\ UNCHANGED <<nb, nr, nc, wt, depth_to_wt, agents, wt_depth_2d,
                   well_count, pumping_well_count, p_well_count,
                   steps_run, soilvars>>

\* the state when the cell "Set up the Farmer model" is about to run
InitGw ==
    /\ nb = "gw" /\ pc = "construct"
    /\ nr \in 3..MaxDim /\ nc \in 3..MaxDim
    /\ wt = [n \in Nodes |-> elev[n] - initial_water_table_depth]
    /\ depth_to_wt = [n \in Nodes |-> elev[n] - wt[n]]
    /\ recharge = Zeros1D(nr * nc)
    /\ agents = <<>>
    /\ wt_depth_2d = <<0, 0>>
    /\ well_count = Unset /\ pumping_well_count = Unset /\ p_well_count = Unset
    /\ i = 0 /\ steps_run = 0 /\ writes_done = 0
    /\ ws_width = 0 /\ ws_height = 0 /\ grass = <<>>
    /\ rmg_elev = <<>> /\ prior_elev = <<>> /\ soil = <<>>
    /\ creep_coef = <<>> /\ gm = Unset /\ soilmatrix = <<0, 0>> /\ si = 0
    /\ cell_content = <<>>

----------------------------------------------------------------------------
(* Soil-creep notebook, section "Two-way feedback" *)

\* rmg = RasterModelGrid((ws.grid.width, ws.grid.height))
SoilNodes == 0..(ws_width * ws_height - 1)

\* the cells (x, y) of ws.grid, as coord_iter() visits them
Cells == (0..(ws_width - 1)) \X (0..(ws_height - 1))

\* the agents a cell of the grid can hold
GrassPatch(fully_grown) == [kind |-> "GrassPatch", fully_grown |-> fully_grown]

Animals == {[kind |-> "Sheep"], [kind |-> "Wolf"]}

\* WolfSheep(grass=True) makes one GrassPatch per cell and keeps it there;
\* grass holds the fully_grown flag of the patch of each cell
PatchContent == [c \in Cells |-> {GrassPatch(grass[c])}]

\* generate_grass_map, the loop over the agents of one cell: the value starts
\* at 0 and a GrassPatch sets it to 2 or to 1; agents of other types are
\* skipped by the type test.  A cell holds at most one GrassPatch, so the
\* order of the visit does not matter.
GrassMapValueAnyAgent(content) ==
    IF content = {} THEN 0
    ELSE IF \E a \in content : a.kind = "GrassPatch" /\ a.fully_grown THEN 2
    ELSE 1

GrassMapValue(content) ==
    LET patches == {a \in content : a.kind = "GrassPatch"}
    IN  IF patches = {} THEN 0
        ELSE IF \E a \in patches : a.fully_grown THEN 2
        ELSE 1

\* generate_grass_map(model) on a grid holding content: the value of cell
\* (x, y) is written at grass_map[x][y] of an array of shape (width, height)
GrassMapOf(content) ==
    LET shape == <<ws_width, ws_height>>
    IN  [shape |-> shape,
         data  |-> [k \in SoilNodes |->
                     LET c == CHOOSE d \in Cells : FlatIndex(shape, d[1], d[2]) = k
                     IN  GrassMapValue(content[c])]]

\* gm = generate_grass_map(ws)
GenerateGrassMap == GrassMapOf(PatchContent)

\* creep_coef[gm.flatten()==1] = fast_creep; creep_coef[gm.flatten()==2] =
\* slow_creep; creep_coef *= 1.0 - np.exp(-soil / hstar).  A coefficient is
\* kept as its rate and the soil depths it was damped by.
CreepCoefAfter ==
    [n \in SoilNodes |->
        LET set == IF gm.data[n] = 2 THEN [rate |-> "slow", damp |-> <<>>]
                   ELSE IF gm.data[n] = 1 THEN [rate |-> "fast", damp |-> <<>>]
                   ELSE creep_coef[n]
        IN  [set EXCEPT !.damp = Append(@, soil[n])]]

\* LinearDiffuser.run_one_step(dt) (external): rewrites the elevation in
\* place; nothing moves, or one node is lowered or raised by one unit
DiffuserOutcomes ==
    {rmg_elev}
    \cup {[rmg_elev EXCEPT ![k] = @ + d] : k \in SoilNodes, d \in {-1, 1}}

\* the shape limit_grass_by_soil gives soilmatrix
SoilMatrixShapeWidthTwice == <<ws_width, ws_width>>

SoilMatrixShape == <<ws_width, ws_height>>

\* limit_grass_by_soil: the flag of a GrassPatch in a cell of soil depth s
LimitedFlagRegrows(s, fully_grown) == s >= min_depth_for_grass

LimitedFlagInclusive(s, fully_grown) ==
    IF s <= min_depth_for_grass THEN FALSE ELSE fully_grown

LimitedFlag(s, fully_grown) == IF s < min_depth_for_grass THEN FALSE ELSE fully_grown

\* limit_grass_by_soil, the loop over the agents of one cell of soil depth s
LimitCell(content, s) ==
    {IF a.kind = "GrassPatch"
        THEN [a EXCEPT !.fully_grown = LimitedFlag(s, a.fully_grown)]
        ELSE a : a \in content}

\* limit_grass_by_soil on a grid holding content
LimitContent(content) ==
    [c \in Cells |->
        LimitCell(content[c], soil[FlatIndex(SoilMatrixShape, c[1], c[2])])]

\* the flags of the patches after limit_grass_by_soil(ws, soil, ...)
GrassAfterLimit ==
    [c \in Cells |->
        \E a \in LimitContent(PatchContent)[c] : a.fully_grown]

\* ws.step() (external): patches are eaten or grow back
WsStepOutcomes == [Cells -> BOOLEAN]

\* the statements of the body of the main loop
SoilLoopBody ==
    <<"s_grassmap", "s_creep", "s_diffuse", "s_soil", "s_limit", "s_ws">>

SoilAdvance(stmt) ==
    /\ pc' = After(SoilLoopBody, stmt, "s_for")
    /\ si' = IF pc' = "s_for" THEN si + 1 ELSE si

\* for i in range(50)
SoilFor ==
    /\ nb = "soil" /\ pc = "s_for"
    /\ pc' = IF si < soil_steps THEN SoilLoopBody[1] ELSE "done"
    /\ UNCHANGED <<nb, gwvars, soilvars>>

\* gm = generate_grass_map(ws)
GrassMapStep ==
    /\ nb = "soil" /\ pc = "s_grassmap"
    /\ gm' = GenerateGrassMap
    /\ SoilAdvance("s_grassmap")
    /\ UNCHANGED <<nb, gwvars, cell_content, ws_width, ws_height, grass, rmg_elev,
                   prior_elev, soil, creep_coef, soilmatrix>>

\* the three assignments to creep_coef
SetCreepCoef ==
    /\ nb = "soil" /\ pc = "s_creep"
    /\ creep_coef' = CreepCoefAfter
    /\ SoilAdvance("s_creep")
    /\ UNCHANGED <<nb, gwvars, cell_content, ws_width, ws_height, grass, rmg_elev,
                   prior_elev, soil, gm, soilmatrix>>

\* prior_elev[:] = elev; diffuser.run_one_step(dt)
RunSoilCreep ==
    /\ nb = "soil" /\ pc = "s_diffuse"
    /\ prior_elev' = rmg_elev
    /\ \E e \in DiffuserOutcomes : rmg_elev' = e
    /\ SoilAdvance("s_diffuse")
    /\ UNCHANGED <<nb, gwvars, cell_content, ws_width, ws_height, grass, soil, creep_coef,
                   gm, soilmatrix>>

\* soil += elev - prior_elev
UpdateSoil ==
    /\ nb = "soil" /\ pc = "s_soil"
    /\ soil' = [n \in SoilNodes |-> soil[n] + (rmg_elev[n] - prior_elev[n])]
    /\ SoilAdvance("s_soil")
    /\ UNCHANGED <<nb, gwvars, cell_content, ws_width, ws_height, grass, rmg_elev,
                   prior_elev, creep_coef, gm, soilmatrix>>

\* limit_grass_by_soil(ws, soil, min_depth_for_grass)
LimitGrassBySoil ==
    /\ nb = "soil" /\ pc = "s_limit"
    /\ IF ReshapeOk(Cardinality(DOMAIN soil), SoilMatrixShape)
       THEN /\ soilmatrix' = SoilMatrixShape
            /\ grass' = GrassAfterLimit
            /\ SoilAdvance("s_limit")
       ELSE pc' = "ValueError" /\ UNCHANGED <<soilmatrix, grass, si>>
    /\ UNCHANGED <<nb, gwvars, cell_content, ws_width, ws_height, rmg_elev, prior_elev,
                   soil, creep_coef, gm>>

\* ws.step()
WsStep ==
    /\ nb = "soil" /\ pc = "s_ws"
    /\ \E g \in WsStepOutcomes : grass' = g
    /\ SoilAdvance("s_ws")
    /\ UNCHANGED <<nb, gwvars, cell_content, ws_width, ws_height, rmg_elev, prior_elev,
                   soil, creep_coef, gm, soilmatrix>>

\* the state when the main loop is about to run: ws = WolfSheep(grass=True)
\* has drawn every patch's flag, the fields are set
InitSoil ==
    /\ nb = "soil" /\ pc = "s_for"
    /\ ws_width \in 1..MaxSoilCells /\ ws_height \in 1..MaxSoilCells
    /\ ws_width * ws_height <= MaxSoilCells
    /\ grass \in [Cells -> BOOLEAN]
    /\ rmg_elev = [n \in SoilNodes |-> n \div ws_height]
    /\ prior_elev = Zeros1D(ws_width * ws_height)
    /\ soil = [n \in SoilNodes |-> initial_soil_depth]
    /\ creep_coef = [n \in SoilNodes |-> [rate |-> "zero", damp |-> <<>>]]
    /\ gm = Unset /\ soilmatrix = <<0, 0>> /\ si = 0
    /\ cell_content = <<>>
    /\ nr = 0 /\ nc = 0 /\ wt = <<>> /\ depth_to_wt = <<>> /\ recharge = <<>>
    /\ agents = <<>> /\ wt_depth_2d = <<0, 0>>
    /\ well_count = Unset /\ pumping_well_count = Unset /\ p_well_count = Unset
    /\ i = 0 /\ steps_run = 0 /\ writes_done = 0

Init == InitGw \/ InitSoil

Next ==
    \/ SoilFor
    \/ GrassMapStep
    \/ SetCreepCoef
    \/ RunSoilCreep
    \/ UpdateSoil
    \/ LimitGrassBySoil
    \/ WsStep
    \/ Construct
    \/ InitialWellCount
    \/ InitialRecharge
    \/ ForYear
    \/ RunForOneYear
    \/ UpdateDepth
    \/ FarmerModelStepReshape
    \/ ScheduleStep
    \/ CountWells
    \/ WriteRecharge

Spec == Init /\ [][Next]_vars

----------------------------------------------------------------------------
(* generate_grass_map and limit_grass_by_soil called on any model *)

\* what a cell can hold: any animals, and at most one GrassPatch
CellContents ==
    {animals \cup patch :
        animals \in SUBSET Animals,
        patch \in {{}} \cup {{GrassPatch(b)} : b \in BOOLEAN}}

\* soil depths just below, at and just above the minimum for grass
SoilLevels ==
    {min_depth_for_grass - 1, min_depth_for_grass, min_depth_for_grass + 1}

\* a model on a grid of any shape, holding any content, and any soil field
GrassInit ==
    /\ nb = "call" /\ pc = "call_map"
    /\ ws_width \in 1..MaxSoilCells /\ ws_height \in 1..MaxSoilCells
    /\ ws_width * ws_height <= MaxSoilCells
    /\ cell_content \in [Cells -> CellContents]
    /\ soil \in [SoilNodes -> SoilLevels]
    /\ grass = <<>> /\ rmg_elev = <<>> /\ prior_elev = <<>>
    /\ creep_coef = <<>> /\ gm = Unset /\ soilmatrix = <<0, 0>> /\ si = 0
    /\ nr = 0 /\ nc = 0 /\ wt = <<>> /\ depth_to_wt = <<>> /\ recharge = <<>>
    /\ agents = <<>> /\ wt_depth_2d = <<0, 0>>
    /\ well_count = Unset /\ pumping_well_count = Unset /\ p_well_count = Unset
    /\ i = 0 /\ steps_run = 0 /\ writes_done = 0

\* gm = generate_grass_map(model)
CallGenerateGrassMap ==
    /\ nb = "call" /\ pc = "call_map"
    /\ gm' = GrassMapOf(cell_content)
    /\ pc' = "call_limit"
    /\ UNCHANGED <<nb, gwvars, cell_content, ws_width, ws_height, grass,
                   rmg_elev, prior_elev, soil, creep_coef, soilmatrix, si>>

\* limit_grass_by_soil(model, soil, min_depth_for_grass)
CallLimitGrassBySoil ==
    /\ nb = "call" /\ pc = "call_limit"
    /\ IF ReshapeOk(Cardinality(DOMAIN soil), SoilMatrixShape)
       THEN /\ soilmatrix' = SoilMatrixShape
            /\ cell_content' = LimitContent(cell_content)
            /\ pc' = "returned"
       ELSE pc' = "ValueError" /\ UNCHANGED <<soilmatrix, cell_content>>
    /\ UNCHANGED <<nb, gwvars, ws_width, ws_height, grass, rmg_elev,
                   prior_elev, soil, creep_coef, gm, si>>

GrassNext ==
    \/ CallGenerateGrassMap
    \/ CallLimitGrassBySoil

GrassSpec == GrassInit /\ [][GrassNext]_vars

----------------------------------------------------------------------------
(* Properties *)

\* the node an agent at (x, y) reads in FarmerAgent.step: wt_depth_2d[x, y]
\* of a view of shape (width, height)
ReadNode(a) == agents[a].pos[1] * grid_height + agents[a].pos[2]

\* the node get_well_count(...).flatten() puts that agent's count at:
\* [x][y] of an array of shape (nr, nc)
WriteNode(a) == agents[a].pos[1] * nc + agents[a].pos[2]

\* C1: after every farmer_model.step(), whatever the flags were before, an
\* agent is not pumping if the depth to the water table at its cell is greater
\* than or equal to its well depth, and is pumping otherwise.
C1_PumpingFollowsDepth ==
    (nb = "gw" /\ pc = "count") =>
        \A a \in DOMAIN agents :
            /\ depth_to_wt[ReadNode(a)] >= agents[a].well_depth
                  => agents[a].pumping = FALSE
            /\ depth_to_wt[ReadNode(a)] < agents[a].well_depth
                  => agents[a].pumping = TRUE

\* the literal scenario: 3 x 3 grid, an agent at (1, 1) with well depth 5 sees
\* a depth of 6 and has stopped pumping
C1_Witness ==
    /\ nb = "gw" /\ pc = "count" /\ nr = 3 /\ nc = 3
    /\ agents[1].pos = <<1, 1>> /\ agents[1].well_depth = 5
    /\ depth_to_wt[ReadNode(1)] = 6 /\ agents[1].seen = 6
    /\ agents[1].pumping = FALSE

\* C2: no reshape fails, and the field handed to the agents (wt_depth_2d,
\* soilmatrix) has as many cells as the agent grid (width x height) and as the
\* simulation grid has nodes.
C2_FieldMatchesGrid ==
    /\ pc # "ValueError"
    /\ (nb = "gw" /\ wt_depth_2d # <<0, 0>>) =>
          /\ CellCount(wt_depth_2d) = grid_width * grid_height
          /\ CellCount(wt_depth_2d) = Cardinality(DOMAIN depth_to_wt)
          /\ CellCount(wt_depth_2d) = nr * nc
    /\ (nb = "soil" /\ soilmatrix # <<0, 0>>) =>
          /\ CellCount(soilmatrix) = ws_width * ws_height
          /\ CellCount(soilmatrix) = Cardinality(DOMAIN soil)
          /\ CellCount(soilmatrix) = Cardinality(DOMAIN rmg_elev)

C2_Witness ==
    /\ nb = "soil" /\ pc = "s_ws" /\ si = 1
    /\ ws_width # ws_height
    /\ soilmatrix = <<ws_width, ws_height>>

\* C3: with no farmer_model.step() in between, a second get_well_count returns
\* the arrays the first one returned, and the recharge field written from the
\* second result is the field already there.
C3_AggregationIdempotent ==
    nb = "gw" =>
        /\ pc = "recharge0" =>
              well_count = WellCountResult /\ p_well_count = PumpingCountResult
        /\ pc = "write" =>
              /\ ~CountRaises
              /\ well_count = WellCountResult
              /\ pumping_well_count = PumpingCountResult
        /\ pc = "for" =>
              /\ ~CountRaises
              /\ recharge = RechargeOf(PumpingCountResult)
              /\ i > 0 => pumping_well_count = PumpingCountResult

C3_Witness ==
    /\ nb = "gw" /\ pc = "for" /\ i = 2
    /\ agents[1].pumping /\ ~agents[2].pumping
    /\ \E n \in Nodes : recharge[n] < 0

\* C4: for every grid of nr >= 3 rows and nc >= 3 columns no index is out of
\* range, and the node an agent reads its depth at is the node its pumping is
\* written to.
C4_SameNodeReadAndWritten ==
    nb = "gw" =>
        /\ pc # "IndexError"
        /\ \A a \in DOMAIN agents : ReadNode(a) = WriteNode(a)

\* the phase of the coupling cycle a statement of a loop body carries out:
\* (a) advance the simulation, (b) derive the field, (c) feed it to the agents,
\* (d) agents update, (e) aggregate, (f) write the forcing input
PhaseOf(stmt) ==
    CASE stmt \in {"run", "s_diffuse"}       -> "a"
      [] stmt \in {"derive", "s_soil"}       -> "b"
      [] stmt \in {"farmer_step", "s_limit"} -> "c"
      [] stmt \in {"schedule", "s_ws"}       -> "d"
      [] stmt \in {"count", "s_grassmap"}    -> "e"
      [] stmt \in {"write", "s_creep"}       -> "f"
      [] OTHER                               -> "none"

\* the iterations a loop has completed
Iteration == IF nb = "gw" THEN i ELSE si

Stopped == pc \in {"done", "IndexError", "ValueError"}

\* C5 as stated: in both loops an iteration starts with phase (a) and the
\* next iteration starts only when phase (f) has finished.
C5_EveryLoopRunsAToF ==
    [][/\ (pc \in {"for", "s_for"} /\ ~Stopped') => PhaseOf(pc') = "a"
       /\ Iteration' # Iteration => PhaseOf(pc) = "f"]_vars

\* C5, amended: the groundwater loop runs (a) (b) (c) (d) (e) (f) in every
\* iteration; the two-way soil-creep loop runs the same cycle starting at
\* aggregation, (e) (f) (a) (b) (c) (d); in both, an iteration starts only when
\* the last statement of the one before has finished.
C5_PhaseOrder ==
    [][/\ nb = "gw" =>
            /\ pc = "for" => pc' \in {"run", "done"} /\ i' = i
            /\ pc = "run" => pc' = "derive" /\ i' = i
            /\ pc = "derive" => pc' = "farmer_step" /\ i' = i
            /\ pc = "farmer_step" => pc' = "schedule" /\ i' = i
            /\ pc = "schedule" => pc' = "count" /\ i' = i
            /\ pc = "count" => pc' \in {"write", "IndexError"} /\ i' = i
            /\ pc = "write" => pc' = "for" /\ i' = i + 1
       /\ nb = "soil" =>
            /\ pc = "s_for" => pc' \in {"s_grassmap", "done"} /\ si' = si
            /\ pc = "s_grassmap" => pc' = "s_creep" /\ si' = si
            /\ pc = "s_creep" => pc' = "s_diffuse" /\ si' = si
            /\ pc = "s_diffuse" => pc' = "s_soil" /\ si' = si
            /\ pc = "s_soil" => pc' = "s_limit" /\ si' = si
            /\ pc = "s_limit" => pc' = "s_ws" /\ si' = si
            /\ pc = "s_ws" => pc' = "s_for" /\ si' = si + 1]_vars

\* the second iteration of the soil-creep loop advances the simulation after
\* it has aggregated and written the creep coefficient
C5_Witness ==
    /\ nb = "soil" /\ si = 1 /\ pc = "s_soil"
    /\ gm = GenerateGrassMap
    /\ \E n \in SoilNodes : rmg_elev[n] # prior_elev[n]

\* how far a run of the groundwater notebook has come
Progress ==
    i * 10 + (CASE pc = "construct"   -> 0
                [] pc = "count0"      -> 1
                [] pc = "recharge0"   -> 2
                [] pc = "for"         -> 3
                [] pc = "run"         -> 4
                [] pc = "derive"      -> 5
                [] pc = "farmer_step" -> 6
                [] pc = "schedule"    -> 7
                [] pc = "count"       -> 8
                [] pc = "write"       -> 9
                [] OTHER              -> 11)

\* C6: the groundwater loop terminates.  The counter starts at 0, grows by one
\* per completed iteration and never passes run_duration_yrs; every statement
\* that runs makes progress towards a bounded end, so no run goes on for ever
\* (the solver returning a water table is the proviso of the claim); when the
\* loop is done, exactly run_duration_yrs farmer_model.step() calls and
\* run_duration_yrs recharge write-backs have happened.
C6_LoopTerminates ==
    /\ [](nb = "gw" =>
            /\ i \in 0..run_duration_yrs
            /\ writes_done = i
            /\ steps_run = IF pc \in {"count", "write"} THEN i + 1 ELSE i
            /\ pc = "construct" => i = 0
            /\ pc = "run" => i < run_duration_yrs
            /\ pc \in {"construct", "count0", "recharge0", "for", "run",
                       "derive", "farmer_step", "schedule", "count", "write",
                       "done", "IndexError", "ValueError"}
            /\ pc = "run" => SolverOutcomes # {}
            /\ pc = "done" =>
                  /\ i = run_duration_yrs
                  /\ steps_run = run_duration_yrs
                  /\ writes_done = run_duration_yrs)
    /\ [][nb = "gw" =>
            /\ i' \in {i, i + 1}
            /\ Progress' > Progress
            /\ Progress' <= run_duration_yrs * 10 + 11]_vars

C6_Witness ==
    /\ nb = "gw" /\ pc = "done"
    /\ i = run_duration_yrs
    /\ steps_run = run_duration_yrs /\ writes_done = run_duration_yrs

\* the pumping flags of the farmers, once they exist
PumpingFlags == [a \in DOMAIN agents |-> agents[a].pumping]

\* C7 as stated: the flags change only in the population's own step
\* (farmer_model.step(), ws.step()); every other statement of the loop bodies
\* leaves them alone.
C7_FlagsChangeOnlyInPopulationStep ==
    [][/\ (agents # <<>> /\ PumpingFlags' # PumpingFlags) => pc = "schedule"
       /\ grass' # grass => pc = "s_ws"]_vars

\* C7, amended: FarmerAgent.pumping changes only in farmer_model.step();
\* GrassPatch.fully_grown changes only in ws.step() and in limit_grass_by_soil,
\* which only clears it, and only in cells whose soil is thinner than the
\* minimum; get_well_count, generate_grass_map and every other statement leave
\* every flag unchanged.
C7_FlagsChangeOnlyInStepOrLimit ==
    [][/\ (agents # <<>> /\ PumpingFlags' # PumpingFlags) => pc = "schedule"
       /\ grass' # grass =>
            \/ pc = "s_ws"
            \/ /\ pc = "s_limit"
               /\ \A c \in Cells :
                     grass'[c] # grass[c] =>
                        /\ grass[c] /\ ~grass'[c]
                        /\ soil[c[1] * ws_height + c[2]] < min_depth_for_grass]_vars

\* limit_grass_by_soil has just cleared the flag of a patch that the grass map
\* of this iteration shows fully grown
C7_Witness ==
    /\ nb = "soil" /\ pc = "s_ws"
    /\ \E c \in Cells :
          /\ gm.data[c[1] * ws_height + c[2]] = 2
          /\ soil[c[1] * ws_height + c[2]] < min_depth_for_grass
          /\ ~grass[c]

RECURSIVE SumTo(_, _)
SumTo(f, n) == IF n < 0 THEN 0 ELSE f[n] + SumTo(f, n - 1)

\* C8: the farmers are made once: after any number of steps there are the same
\* num_agents agents, each with the position, id and well depth it was made
\* with, and well_count is the same array after every step, summing to
\* num_agents.
C8_AgentsPersist ==
    /\ [](agents # <<>> =>
            /\ Len(agents) = num_agents
            /\ \A a \in DOMAIN agents : agents[a].unique_id = a - 1
            /\ well_count # Unset =>
                  SumTo(well_count.data, nr * nc - 1) = num_agents)
    /\ [][/\ agents # <<>> =>
              /\ DOMAIN agents' = DOMAIN agents
              /\ \A a \in DOMAIN agents :
                    /\ agents'[a].pos = agents[a].pos
                    /\ agents'[a].well_depth = agents[a].well_depth
                    /\ agents'[a].unique_id = agents[a].unique_id
          /\ well_count # Unset => well_count' = well_count]_vars

C8_Witness ==
    /\ nb = "gw" /\ pc = "write" /\ i = 1
    /\ agents[1].pos # agents[2].pos
    /\ well_count.data[WriteNode(1)] = 1
    /\ ~agents[1].pumping

\* C9: farmer_model.step() changes no value of the depth-to-water-table field,
\* of the water table or of the recharge field; of the agents it changes only
\* the pumping flag (and what the agent has printed); the loop's own variables
\* stay as they are.
C9_StepReadsFieldsOnly ==
    [][(pc = "farmer_step" \/ pc = "schedule") =>
          /\ depth_to_wt' = depth_to_wt
          /\ wt' = wt
          /\ recharge' = recharge
          /\ DOMAIN agents' = DOMAIN agents
          /\ \A a \in DOMAIN agents :
                /\ agents'[a].pos = agents[a].pos
                /\ agents'[a].well_depth = agents[a].well_depth
                /\ agents'[a].unique_id = agents[a].unique_id
          /\ <<nr, nc, well_count, pumping_well_count, p_well_count>>'
                = <<nr, nc, well_count, pumping_well_count, p_well_count>>
          /\ writes_done' = writes_done]_vars

\* a step in which an agent has switched its flag off
C9_Witness ==
    /\ nb = "gw" /\ pc = "count" /\ i = 0
    /\ agents[1].pumping = FALSE
    /\ agents[2].pumping = TRUE
    /\ depth_to_wt = [n \in Nodes |-> elev[n] - wt[n]]

\* C10: the depth every agent compares with its well depth in
\* farmer_model.step() is elev - wt as it stands after this iteration's
\* run_for_one_year.
C10_AgentsSeeFreshDepth ==
    (nb = "gw" /\ pc = "count") =>
        \A a \in DOMAIN agents :
            agents[a].seen = elev[ReadNode(a)] - wt[ReadNode(a)]

\* in the second year two agents see depths that differ from each other and
\* from the depth at construction
C10_Witness ==
    /\ nb = "gw" /\ pc = "count" /\ i = 1
    /\ agents[1].seen = well_depth + 1
    /\ agents[2].seen = well_depth - 1
    /\ agents[1].seen # initial_water_table_depth

\* the agents that are pumping and whose cell is node n of the field the
\* agents read their depth from
PumpingAt(n) == {a \in DOMAIN agents : agents[a].pumping /\ ReadNode(a) = n}

\* C11: when the initial recharge is set and after every iteration of the
\* groundwater loop, the recharge at each node is -(pumping_rate / dx^2) times
\* the number of pumping agents at that node; it is never positive, zero at a
\* node without a pumping agent and zero everywhere once no agent pumps;
\* before the first step every agent counts as pumping.
C11_RechargeIsPumpingCount ==
    nb = "gw" =>
        /\ \A n \in DOMAIN recharge : recharge[n] <= 0
        /\ (pc = "for" \/ pc = "done") =>
              /\ \A n \in Nodes :
                    /\ recharge[n] = -((pumping_rate \div (dx * dx))
                                          * Cardinality(PumpingAt(n)))
                    /\ PumpingAt(n) = {} => recharge[n] = 0
              /\ (\A a \in DOMAIN agents : ~agents[a].pumping) =>
                    \A n \in Nodes : recharge[n] = 0
        /\ (pc \in {"count0", "recharge0"} \/ (pc = "for" /\ i = 0)) =>
              \A a \in DOMAIN agents : agents[a].pumping

\* after the first year two agents share a cell and both pump, so the
\* recharge there is twice the rate of one well
C11_Witness ==
    /\ nb = "gw" /\ pc = "for" /\ i = 1
    /\ agents[1].pos = agents[2].pos
    /\ agents[1].pumping /\ agents[2].pumping
    /\ recharge[ReadNode(1)] = -(2 * pumping_rate)
    /\ \E n \in Nodes : recharge[n] = 0

\* C12: FarmerModel.__init__ places every agent on an interior cell: for every
\* width >= 3 and height >= 3 and every draw, 1 <= x <= width - 2 and
\* 1 <= y <= height - 2.
C12_AgentsOnInteriorCells ==
    nb = "gw" =>
        \A a \in DOMAIN agents :
            /\ 1 <= agents[a].pos[1] /\ agents[a].pos[1] <= grid_width - 2
            /\ 1 <= agents[a].pos[2] /\ agents[a].pos[2] <= grid_height - 2

\* the GrassPatches of a cell
PatchesIn(c) == {a \in cell_content[c] : a.kind = "GrassPatch"}

\* C13: generate_grass_map returns, for every cell (x, y), 2 if the cell holds
\* a fully grown GrassPatch, 1 if it holds a GrassPatch that is not fully
\* grown and 0 if it holds no GrassPatch; other agents in the cell make no
\* difference, and the call leaves the model as it was.
C13_GrassMapValues ==
    /\ []((nb = "call" /\ pc = "call_limit") =>
            /\ gm.shape = <<ws_width, ws_height>>
            /\ \A c \in Cells :
                  LET v == gm.data[c[1] * ws_height + c[2]]
                  IN  /\ GrassPatch(TRUE) \in cell_content[c] => v = 2
                      /\ GrassPatch(FALSE) \in cell_content[c] => v = 1
                      /\ PatchesIn(c) = {} => v = 0
                      /\ v \in {0, 1, 2})
    /\ [][(nb = "call" /\ pc = "call_map") =>
            /\ cell_content' = cell_content
            /\ soil' = soil]_vars

\* a map with a 2, a cell that holds only animals (0) and, elsewhere, a 1
\* for an eaten patch that shares its cell with a sheep
C13_Witness ==
    /\ nb = "call" /\ pc = "call_limit"
    /\ \E c, d \in Cells :
          /\ cell_content[c] = Animals
          /\ gm.data[c[1] * ws_height + c[2]] = 0
          /\ cell_content[d] = {GrassPatch(FALSE), [kind |-> "Sheep"]}
          /\ gm.data[d[1] * ws_height + d[2]] = 1

\* the soil depth of cell c: soilmatrix[x][y]
SoilAt(c) == soil[c[1] * ws_height + c[2]]

\* the agents of a cell that are not GrassPatches
OthersIn(content) == {a \in content : a.kind # "GrassPatch"}

\* C14: after limit_grass_by_soil every GrassPatch in a cell whose soil is
\* strictly thinner than the minimum has fully_grown = False; a GrassPatch in
\* a cell whose soil is at or above the minimum keeps its flag; no flag is set
\* to True, and no other agent and no field is changed.
C14_LimitClearsThinSoilOnly ==
    [][(nb = "call" /\ pc = "call_limit") =>
          /\ pc' = "returned"
          /\ \A c \in Cells :
                /\ SoilAt(c) < min_depth_for_grass =>
                      \A a \in cell_content'[c] :
                          a.kind = "GrassPatch" => a.fully_grown = FALSE
                /\ SoilAt(c) >= min_depth_for_grass =>
                      cell_content'[c] = cell_content[c]
                /\ GrassPatch(TRUE) \in cell_content'[c] =>
                      GrassPatch(TRUE) \in cell_content[c]
                /\ OthersIn(cell_content'[c]) = OthersIn(cell_content[c])
                /\ (OthersIn(cell_content'[c]) = cell_content'[c])
                      = (OthersIn(cell_content[c]) = cell_content[c])
          /\ soil' = soil
          /\ gm' = gm
          /\ ws_width' = ws_width /\ ws_height' = ws_height]_vars

\* one call has cleared a grown patch on thin soil, next to a wolf that is
\* still there, and has kept a grown patch on soil exactly at the minimum
C14_Witness ==
    /\ nb = "call" /\ pc = "returned"
    /\ \E c, d \in Cells :
          /\ SoilAt(c) = min_depth_for_grass - 1
          /\ gm.data[c[1] * ws_height + c[2]] = 2
          /\ cell_content[c] = {GrassPatch(FALSE), [kind |-> "Wolf"]}
          /\ SoilAt(d) = min_depth_for_grass
          /\ GrassPatch(TRUE) \in cell_content[d]

\* the array of pumping wells get_well_count would return for the agents ags
PumpingCountOf(ags) ==
    [shape |-> <<nr, nc>>,
     data  |-> [k \in Nodes |->
                 Cardinality({a \in DOMAIN ags :
                                ags[a].pumping /\ CountIndex(a) = k})]]

\* C15: the result of farmer_model.step() does not depend on the order in
\* which the scheduler activates the agents: for the depth field of the step,
\* every permutation of the agents ends in the agents (pumping flags
\* included) and the depth field the step has ended in, also when agents
\* share a cell; the aggregate that is then written to recharge is a function
\* of those flags, so it is the same for every activation order.
C15_ActivationOrderIrrelevant ==
    /\ [](nb = "gw" =>
            /\ pc = "write" => pumping_well_count = PumpingCountOf(agents)
            /\ (pc = "for" /\ i > 0) =>
                  recharge = RechargeOf(PumpingCountOf(agents)))
    /\ [][(nb = "gw" /\ pc = "schedule") =>
            \A order \in ActivationOrders :
                LET w == RunSchedule([agents |-> agents,
                                      depth |-> ModelDepthBuffer,
                                      shape |-> wt_depth_2d], order)
                IN  w.agents = agents' /\ w.depth = depth_to_wt']_vars

\* the second step has run with two agents in one cell, where the water
\* table stands just above the bottom of their wells: both go on pumping
C15_Witness ==
    /\ nb = "gw" /\ pc = "count" /\ steps_run = 2
    /\ agents[1].pos = agents[2].pos
    /\ agents[1].seen = well_depth - 1 /\ agents[2].seen = well_depth - 1
    /\ agents[1].pumping /\ agents[2].pumping

====
